---------------------------- MODULE Spec2Model ----------------------------
(***************************************************************************)
(* Model of batch-index-refactor.py: the job that turns the `country`      *)
(* property of Organization nodes into HAS_LOCATION relationships to       *)
(* Country nodes, one category value at a time, in batches of `batchSize`  *)
(* rows, each batch an auto-commit transaction of the Bolt session.        *)
(*                                                                         *)
(* The store holds Organization nodes (graphgen.py), Country nodes keyed   *)
(* by a unique countryName (set-indexes.py, extract-parent.py) and the     *)
(* HAS_LOCATION relationships the job creates.                             *)
(***************************************************************************)
EXTENDS Integers, Sequences, FiniteSets, TLC

(* ------------------------------ bounds -------------------------------- *)

\* Number of Organization nodes in the store (graphgen.py creates 1000000).
NumOrgs == 5

\* The job is configured with a batch size in 1..MaxBatchSize.
MaxBatchSize == 2

\* Number of times the script is run against the same store.
MaxRuns == 3

\* Number of statements extract-parent.py commits while the job runs.
MaxWrites == 2

\* Number of times a batch is invoked again with the same parameters.
MaxRetries == 2

(* ------------------------------ the store ----------------------------- *)

Org == 1..NumOrgs

\* The values the `country` property takes.
Names == {"France", "Germany"}

NoName == "-"

VARIABLES
    country,       \* Organization.country, per Organization node
    Country,       \* the countryName keys of the Country nodes
    rel,           \* rel[n][c]: number of HAS_LOCATION relationships n -> c
    batchSize,     \* rows per transaction
    pc,            \* position of the script: start, for, while, exited
    propertyList,  \* the records returned by childProps1 in this run
    cursor,        \* the records of propertyList not yet iterated
    pname,         \* property["pname"] of the category being processed
    ncount,        \* property["ncount"] of the category being processed
    btotal,        \* running total of batched rows of the category
    ntotal,        \* job-wide total of refactored nodes
    counters,      \* relationships created by the last batch
    batchLog,      \* the counters printed for the batches of the category
    outcome,       \* how the run ended: none, done, CypherError, Other, Interrupt
    run,           \* number of the current run of the script
    prevOutcome,   \* outcome of the previous run
    relStart,      \* rel when the current run started
    resume,        \* the category a run was cut in, with its counts
    exitCode,      \* exit status of the process: running, zero, nonzero
    stranded,      \* unlinked children left, Country node present, at loop end
    mode,          \* how the loop decides to stop: estimate, actualCount
    writes,        \* statements of extract-parent.py committed meanwhile
    retries,       \* batches invoked again with the same parameters
    par            \* per category, the loop of a worker run side by side

vars == <<country, Country, rel, batchSize, pc, propertyList, cursor, pname,
          ncount, btotal, ntotal, counters, batchLog, outcome, run,
          prevOutcome, relStart, resume, exitCode, stranded, mode, writes,
          retries, par>>

\* What the sequential job never touches.
env == <<mode, writes, retries, par>>

(* ------------------------------ helpers ------------------------------- *)

Min(a, b) == IF a < b THEN a ELSE b

CeilDiv(a, b) == (a + b - 1) \div b

RECURSIVE SumSeq(_)
SumSeq(s) == IF s = <<>> THEN 0 ELSE s[1] + SumSeq(Tail(s))

RECURSIVE SumOver(_, _)
SumOver(f, S) ==
    IF S = {} THEN 0
    ELSE LET x == CHOOSE y \in S : TRUE IN f[x] + SumOver(f, S \ {x})

\* Number of HAS_LOCATION relationships of Organization n.
Degree(r, n) == SumOver(r[n], Names)

\* Number of HAS_LOCATION relationships in the store.
EdgeCount(r) == SumOver([n \in Org |-> Degree(r, n)], Org)

NoRel == [n \in Org |-> [c \in Names |-> 0]]

(* ------------------------------ queries ------------------------------- *)

\* WHERE NOT ((n)-[:HAS_LOCATION]-())
Unlinked(r, n) == \A c \in Names : r[n][c] = 0

\* count(n) of the unlinked Organizations with n.country = p
UnlinkedCount(r, p) == Cardinality({n \in Org : country[n] = p /\ Unlinked(r, n)})

\* A mutant: count(DISTINCT n.country) instead of count(n).
childProps1_distinct(r) ==
    {[pname |-> p, ncount |-> 1] :
        p \in {country[n] : n \in {m \in Org : Unlinked(r, m)}}}

\* A mutant: the WHERE NOT clause is missing, every Organization is counted.
childProps1_nofilter(r) ==
    {[pname |-> p, ncount |-> Cardinality({n \in Org : country[n] = p})] :
        p \in {country[n] : n \in Org}}

\* childProps1: the unlinked Organizations grouped by country, with their count.
childProps1(r) ==
    {[pname |-> p, ncount |-> UnlinkedCount(r, p)] :
        p \in {country[n] : n \in {m \in Org : Unlinked(r, m)}}}

\* A mutant: MATCH (c:Country), the parent is not restricted by the parameter.
MatchCountry_all(pn) == Country

\* MATCH (c:Country {countryName:{pname}}); countryName is unique.
MatchCountry(pn) == IF pn \in Country THEN {pn} ELSE {}

\* A mutant: MATCH (n:Organization), the child is not restricted by the parameter.
MatchOrganization_all(pn) == Org

\* MATCH (n:Organization {country:{pname}})
MatchOrganization(pn) == {n \in Org : country[n] = pn}

\* The rows <<c, n>> of the MATCH ... WHERE NOT ... of indexRefactor1.
Rows(r, pn) ==
    {<<c, n>> : c \in MatchCountry(pn),
                n \in {m \in MatchOrganization(pn) : Unlinked(r, m)}}

\* A mutant: LIMIT is missing.
Limit_none(rows, lim) == {rows}

\* A mutant: LIMIT {limit} - 1.
Limit_short(rows, lim) ==
    {S \in SUBSET rows : Cardinality(S) = Min(lim - 1, Cardinality(rows))}

\* WITH c,n LIMIT {limit}: any lim of the rows (all of them if there are fewer).
Limit(rows, lim) ==
    {S \in SUBSET rows : Cardinality(S) = Min(lim, Cardinality(rows))}

\* MERGE (c)<-[r:HAS_LOCATION]-(n) for every row of S: created if absent.
Merge(r, S) ==
    [n \in Org |-> [c \in Names |->
        IF <<c, n>> \in S /\ r[n][c] = 0 THEN 1 ELSE r[n][c]]]

\* A mutant: MERGE (c:Country {countryName:{pname}})<-[r:HAS_LOCATION]-(n)
\* with c not matched before: the Country node is created when missing.
MergeNodes_create(C, pn) == C \cup {pn}

\* The Country nodes after the MERGE: c and n are both bound by the MATCH,
\* so only the relationship is merged and no node is created.
MergeNodes(C, pn) == C

\* A mutant: one transaction for the whole job, rolled back as a whole.
Rollback_all(r) == relStart

\* session.rollback() in the handler: every batch was an auto-commit
\* transaction, none is open, so nothing is undone.
Rollback(r) == r

\* A mutant: the loop goes on while btotal <= ncount.
MoreBatches_le(bt, nc) == bt <= nc

\* A mutant: the loop stops one batch early.
MoreBatches_early(bt, nc) == bt + batchSize < nc

\* if btotal < ncount: next batch, else done
MoreBatches(bt, nc) == bt < nc

\* A mutant: btotal accumulates the relationships the batch created.
BatchedTotal_actual(bt, created) == bt + created

\* btotal = btotal + batchSize
BatchedTotal(bt, created) == bt + batchSize

\* Actual-count termination (terminationMode actualCount): the loop goes on
\* while a batch creates relationships.
MoreBatchesActual(created) == created > 0

\* Whether the while loop goes on after a batch.
Continue(bt, nc, created) ==
    IF mode = "estimate" THEN MoreBatches(bt, nc) ELSE MoreBatchesActual(created)

\* No loop issues this many batches (it keeps the log of a loop finite).
MaxBatches == NumOrgs * (MaxWrites + 1) + 1

\* Unlinked Organizations of country pn whose Country node exists.
Stranded(r, C, pn) == IF pn \in C THEN UnlinkedCount(r, pn) ELSE 0

\* A mutant: the handler raises the exception again.
ExitCodes_raise(kind) == {"nonzero"}

\* The exit status after the handler: the exception is printed and
\* swallowed; on the rollback path session.rollback() may itself raise.
ExitCodes(kind) ==
    IF kind = "CypherError" THEN {"zero"} ELSE {"zero", "nonzero"}

\* A mutant: the handler swallows the error and the for loop goes on.
AfterException_continue == "for"

\* The try statement encloses the for loop: an exception leaves it.
AfterException == "exited"

\* HAS_LOCATION relationships of the Organizations with country p.
CatEdges(r, p) ==
    SumOver([n \in Org |-> IF country[n] = p THEN Degree(r, n) ELSE 0], Org)

NoResume == [pname |-> NoName, N |-> 0, k |-> 0, base |-> 0]

\* The category the run is cut in and what it had committed of it.
CutIn ==
    IF pc = "while" /\ 0 < SumSeq(batchLog) /\ SumSeq(batchLog) < ncount
    THEN [pname |-> pname, N |-> ncount, k |-> SumSeq(batchLog),
          base |-> CatEdges(relStart, pname)]
    ELSE NoResume

(* ------------------------------ the job ------------------------------- *)

\* The Organizations 1..k are in France and the others in Germany: up to the
\* numbering of the nodes, every assignment of the two values.
Countries(k) == [n \in Org |-> IF n <= k THEN "France" ELSE "Germany"]

\* No worker is running.
NoPar == [p \in Names |-> [pc |-> "idle", ncount |-> 0, btotal |-> 0]]

\* The store after graphgen.py, set-indexes.py and extract-parent.py, and
\* the script about to start.
InitJob ==
    /\ \E k \in 0..NumOrgs : country = Countries(k)
    /\ Country \in SUBSET Names
    /\ rel = NoRel
    /\ batchSize \in 1..MaxBatchSize
    /\ pc = "start"
    /\ propertyList = {}
    /\ cursor = {}
    /\ pname = NoName
    /\ ncount = 0
    /\ btotal = 0
    /\ ntotal = 0
    /\ counters = 0
    /\ batchLog = <<>>
    /\ outcome = "none"
    /\ run = 1
    /\ prevOutcome = "none"
    /\ relStart = NoRel
    /\ resume = NoResume
    /\ exitCode = "running"
    /\ stranded = 0
    /\ writes = 0
    /\ retries = 0
    /\ par = NoPar

Init == InitJob /\ mode = "estimate"

\* propertyList = session.run(childProps1)
StartJob ==
    /\ pc = "start"
    /\ propertyList' = childProps1(rel)
    /\ cursor' = propertyList'
    /\ pc' = "for"
    /\ UNCHANGED <<country, Country, rel, batchSize, pname, ncount, btotal,
                   ntotal, counters, batchLog, outcome, run, prevOutcome,
                   relStart, resume, exitCode, stranded, env>>

\* for property in propertyList: the next record, in the store's order.
ForNext ==
    /\ pc = "for"
    /\ \E property \in cursor :
        /\ pname' = property.pname
        /\ ncount' = property.ncount
        /\ cursor' = cursor \ {property}
    /\ btotal' = 0
    /\ batchLog' = <<>>
    /\ pc' = "while"
    /\ stranded' = 0
    /\ UNCHANGED <<country, Country, rel, batchSize, propertyList, ntotal,
                   counters, outcome, run, prevOutcome, relStart, resume,
                   exitCode, env>>

\* One pass of the while loop: a batch that commits, then the check of btotal.
Batch ==
    /\ pc = "while"
    /\ Len(batchLog) < MaxBatches
    /\ \E S \in Limit(Rows(rel, pname), batchSize) :
        /\ rel' = Merge(rel, S)
        /\ counters' = EdgeCount(rel') - EdgeCount(rel)
    /\ Country' = MergeNodes(Country, pname)
    /\ btotal' = BatchedTotal(btotal, counters')
    /\ batchLog' = Append(batchLog, counters')
    /\ IF Continue(btotal', ncount, counters')
       THEN /\ pc' = "while"
            /\ ntotal' = ntotal
            /\ stranded' = stranded
       ELSE /\ pc' = "for"
            /\ ntotal' = ntotal + ncount
            /\ stranded' = Stranded(rel', Country', pname)
    /\ UNCHANGED <<country, batchSize, propertyList, cursor, pname,
                   ncount, outcome, run, prevOutcome, relStart, resume,
                   exitCode, env>>

\* The for loop is exhausted: finally, and the script ends.
JobDone ==
    /\ pc = "for"
    /\ cursor = {}
    /\ pc' = "exited"
    /\ outcome' = "done"
    /\ resume' = NoResume
    /\ exitCode' = "zero"
    /\ UNCHANGED <<country, Country, rel, batchSize, propertyList, cursor,
                   pname, ncount, btotal, ntotal, counters, batchLog, run,
                   prevOutcome, relStart, stranded, env>>

\* session.run or result.consume raises: the failed statement commits
\* nothing, and the handler rolls back unless the error is a CypherError.
Fail(kind) ==
    /\ pc \in {"start", "while"}
    /\ rel' = IF kind = "CypherError" THEN rel ELSE Rollback(rel)
    /\ pc' = AfterException
    /\ outcome' = kind
    /\ resume' = CutIn
    /\ exitCode' \in ExitCodes(kind)
    /\ UNCHANGED <<country, Country, batchSize, propertyList, cursor, pname,
                   ncount, btotal, ntotal, counters, batchLog, run,
                   prevOutcome, relStart, stranded, env>>

\* The process is stopped between two statements (not an Exception: only
\* the finally clause runs).
Interrupt ==
    /\ pc \in {"for", "while"}
    /\ pc' = "exited"
    /\ outcome' = "Interrupt"
    /\ resume' = CutIn
    /\ exitCode' = "nonzero"
    /\ UNCHANGED <<country, Country, rel, batchSize, propertyList, cursor,
                   pname, ncount, btotal, ntotal, counters, batchLog, run,
                   prevOutcome, relStart, stranded, env>>

\* The script is run again on the same store.
Restart ==
    /\ pc = "exited"
    /\ run < MaxRuns
    /\ run' = run + 1
    /\ prevOutcome' = outcome
    /\ relStart' = rel
    /\ pc' = "start"
    /\ propertyList' = {}
    /\ cursor' = {}
    /\ pname' = NoName
    /\ ncount' = 0
    /\ btotal' = 0
    /\ ntotal' = 0
    /\ counters' = 0
    /\ batchLog' = <<>>
    /\ outcome' = "none"
    /\ exitCode' = "running"
    /\ stranded' = 0
    /\ UNCHANGED <<country, Country, rel, batchSize, resume, env>>

Next ==
    \/ StartJob
    \/ ForNext
    \/ Batch
    \/ JobDone
    \/ \E kind \in {"CypherError", "Other"} : Fail(kind)
    \/ Interrupt
    \/ Restart

Spec == Init /\ [][Next]_vars

(* ----------------- extract-parent.py run while the job runs ----------- *)

\* What extract-parent.py leaves alone.
jobState == <<country, batchSize, pc, propertyList, cursor, pname, ncount,
              btotal, ntotal, counters, batchLog, outcome, run, prevOutcome,
              relStart, resume, exitCode, stranded, mode, retries, par>>

\* cleanup1: MATCH (n:Country) DETACH DELETE n; the Country nodes go, and
\* with them every HAS_LOCATION relationship.
Cleanup ==
    /\ pc \in {"for", "while"}
    /\ writes < MaxWrites
    /\ writes' = writes + 1
    /\ Country' = {}
    /\ rel' = NoRel
    /\ UNCHANGED jobState

\* extractCategory1: a Country node is merged for every country of the
\* sampled Organizations.
Extract ==
    /\ pc \in {"for", "while"}
    /\ writes < MaxWrites
    /\ writes' = writes + 1
    /\ \E names \in SUBSET {country[n] : n \in Org} :
          /\ names # {}
          /\ Country' = Country \cup names
    /\ rel' = rel
    /\ UNCHANGED jobState

\* The job under either way of ending a loop.
InitW == InitJob /\ mode \in {"estimate", "actualCount"}

\* One run of the job, with extract-parent.py committing in between.
NextW ==
    \/ StartJob
    \/ ForNext
    \/ Batch
    \/ JobDone
    \/ Cleanup
    \/ Extract

SpecW == InitW /\ [][NextW]_vars

(* --------------------- one run that nothing cuts short ---------------- *)

NextJob ==
    \/ StartJob
    \/ ForNext
    \/ Batch
    \/ JobDone

\* The script is sequential and every statement returns: it always takes
\* its next step.
SpecLive == Init /\ [][NextJob]_vars /\ WF_vars(NextJob)

(* ------------------ the loops of the categories side by side ---------- *)

\* What a worker's batch leaves alone.
parFrame == <<country, batchSize, pc, propertyList, cursor, pname, ncount,
              btotal, ntotal, counters, batchLog, outcome, run, prevOutcome,
              relStart, resume, exitCode, stranded, mode, writes, retries>>

\* The count query, then one worker per record of its result.
ParStart ==
    /\ pc = "start"
    /\ propertyList' = childProps1(rel)
    /\ par' = [p \in Names |->
                 IF \E property \in propertyList' : property.pname = p
                 THEN [pc |-> "while",
                       ncount |-> UnlinkedCount(rel, p),
                       btotal |-> 0]
                 ELSE [pc |-> "done", ncount |-> 0, btotal |-> 0]]
    /\ pc' = "parallel"
    /\ UNCHANGED <<country, Country, rel, batchSize, cursor, pname, ncount,
                   btotal, ntotal, counters, batchLog, outcome, run,
                   prevOutcome, relStart, resume, exitCode, stranded, mode,
                   writes, retries>>

\* One pass of the while loop of the worker of category p.
ParBatch(p) ==
    /\ pc = "parallel"
    /\ par[p].pc = "while"
    /\ \E S \in Limit(Rows(rel, p), batchSize) :
          /\ rel' = Merge(rel, S)
          /\ LET bt == BatchedTotal(par[p].btotal,
                                    EdgeCount(rel') - EdgeCount(rel))
             IN par' = [par EXCEPT ![p] =
                          [pc |-> IF MoreBatches(bt, par[p].ncount)
                                  THEN "while" ELSE "done",
                           ncount |-> par[p].ncount,
                           btotal |-> bt]]
    /\ Country' = MergeNodes(Country, p)
    /\ UNCHANGED parFrame

\* Every worker is done: the job ends.
ParJoin ==
    /\ pc = "parallel"
    /\ \A p \in Names : par[p].pc = "done"
    /\ pc' = "exited"
    /\ outcome' = "done"
    /\ exitCode' = "zero"
    /\ UNCHANGED <<country, Country, rel, batchSize, propertyList, cursor,
                   pname, ncount, btotal, ntotal, counters, batchLog, run,
                   prevOutcome, relStart, resume, stranded, env>>

NextPar ==
    \/ ParStart
    \/ \E p \in Names : ParBatch(p)
    \/ ParJoin

SpecPar == Init /\ [][NextPar]_vars

(* ------------------- a batch invoked again, same parameters ----------- *)

\* session.run(indexRefactor1, {pname, limit}) once more for the category of
\* the loop, outside the loop's count: the call commits, the loop does not
\* see its result.
Retry ==
    /\ pc = "while"
    /\ retries < MaxRetries
    /\ retries' = retries + 1
    /\ \E S \in Limit(Rows(rel, pname), batchSize) : rel' = Merge(rel, S)
    /\ Country' = MergeNodes(Country, pname)
    /\ UNCHANGED <<country, batchSize, pc, propertyList, cursor, pname, ncount,
                   btotal, ntotal, counters, batchLog, outcome, run,
                   prevOutcome, relStart, resume, exitCode, stranded, mode,
                   writes, par>>

NextRetry ==
    \/ StartJob
    \/ ForNext
    \/ Batch
    \/ JobDone
    \/ Retry

SpecRetry == Init /\ [][NextRetry]_vars

(* ------------------------------ properties ---------------------------- *)

Errors == {"CypherError", "Other"}

\* The loop of category pname has just ended (CategoryDone).
CategoryDone == pc = "for" /\ pname # NoName

\* The run follows one that was cut inside the loop of resume.pname.
Resumed == resume # NoResume /\ pc \in {"for", "while"}

\* The counters of a loop of ceil(N/B) batches over N unlinked children.
ExpectedLog(N, B, exists) ==
    [i \in 1..CeilDiv(N, B) |-> IF exists THEN Min(B, N - (i - 1) * B) ELSE 0]

\* C1: in every reachable state, over any number of runs, cut or not, every
\* Organization holds at most one HAS_LOCATION relationship.
C1_NoDuplicates == \A n \in Org : Degree(rel, n) <= 1

\* A run that follows a cut run has ended, with relationships of both runs.
C1_Witness ==
    /\ run >= 2
    /\ prevOutcome \in Errors \cup {"Interrupt"}
    /\ pc = "exited" /\ outcome = "done"
    /\ EdgeCount(relStart) > 0
    /\ EdgeCount(rel) > EdgeCount(relStart)

\* C2: when the job has completed without an error, every Organization whose
\* country has a Country node holds exactly one relationship, to that node,
\* and no Organization holds more than one.
C2_GlobalCompletion ==
    (pc = "exited" /\ outcome = "done") =>
        \A n \in Org :
            /\ country[n] \in Country => rel[n][country[n]] = 1
            /\ Degree(rel, n) <= 1

\* A first run completed after several batches of a category, with a
\* category without Country node left aside.
C2_Witness ==
    /\ pc = "exited" /\ outcome = "done" /\ run = 1
    /\ Len(batchLog) >= 2
    /\ \E n \in Org : country[n] \in Country
    /\ \E n \in Org : country[n] \notin Country

\* C3 as stated, for a category whose Country node exists: the loop issues
\* ceil(N/B) productive batches and then one more batch that creates 0
\* relationships, ceil(N/B)+1 invocations in all.
C3_Original ==
    (CategoryDone /\ pname \in Country) =>
        /\ Len(batchLog) = CeilDiv(ncount, batchSize) + 1
        /\ batchLog[Len(batchLog)] = 0
        /\ \A i \in 1..CeilDiv(ncount, batchSize) :
              i <= Len(batchLog) =>
                  batchLog[i] = Min(batchSize, ncount - (i - 1) * batchSize)

\* C3 amended: a category reported with N >= 1 unlinked children has exactly
\* N of them when its loop starts, and the loop issues exactly ceil(N/B)
\* batches and no further one; the i-th creates min(B, N - (i-1)B)
\* relationships when the Country node exists, and 0 when it does not.
C3_Convergence ==
    /\ (pc = "while" /\ btotal = 0) =>
           (ncount >= 1 /\ UnlinkedCount(rel, pname) = ncount)
    /\ CategoryDone =>
           batchLog = ExpectedLog(ncount, batchSize, pname \in Country)

\* The scenario, scaled by 1000 and rounded up: N = 5, B = 2 gives the
\* batches 2, 2, 1.
C3_Witness ==
    /\ CategoryDone
    /\ ncount = 5 /\ batchSize = 2
    /\ batchLog = <<2, 2, 1>>

\* C4: a run that follows a completed run changes no relationship in any of
\* its batches, and ends with the relationships the completed run left.
C4_Idempotence == prevOutcome = "done" => rel = relStart

\* The second of two completed runs, which has issued a batch.
C4_Witness ==
    /\ prevOutcome = "done"
    /\ pc = "exited" /\ outcome = "done"
    /\ batchLog # <<>>
    /\ EdgeCount(rel) >= 2

\* C5 as stated: the restarted loop ends after ceil((N-k)/B)+1 invocations.
C5_Original ==
    (Resumed /\ CategoryDone /\ pname = resume.pname) =>
        Len(batchLog) = CeilDiv(resume.N - resume.k, batchSize) + 1

\* C5 amended: after a run cut with k of the N relationships of a category
\* committed (0 < k < N), the next run's count query reports the category
\* with N - k, its loop ends after exactly ceil((N-k)/B) batches, which
\* create N - k relationships, and the category then has the N relationships
\* of the two runs and one relationship per Organization.
C5_Restart ==
    /\ Resumed =>
           [pname |-> resume.pname, ncount |-> resume.N - resume.k]
               \in propertyList
    /\ (Resumed /\ CategoryDone /\ pname = resume.pname) =>
           /\ ncount = resume.N - resume.k
           /\ Len(batchLog) = CeilDiv(resume.N - resume.k, batchSize)
           /\ SumSeq(batchLog) = resume.N - resume.k
           /\ CatEdges(rel, pname) = resume.base + resume.N
           /\ \A n \in Org : country[n] = pname => Degree(rel, n) = 1

\* The scenario, scaled: N = 5, B = 2, cut after k = 2; the next run is
\* told 3 and is done with the category after 2 batches, 5 relationships.
C5_Witness ==
    /\ Resumed /\ CategoryDone /\ pname = resume.pname
    /\ resume.N = 5 /\ resume.k = 2 /\ resume.base = 0 /\ batchSize = 2
    /\ ncount = 3
    /\ batchLog = <<2, 1>>
    /\ CatEdges(rel, pname) = 5

\* C6: every HAS_LOCATION relationship links an Organization to the Country
\* node whose countryName is the Organization's country.
C6_EdgeTarget ==
    \A n \in Org : \A c \in Names :
        rel[n][c] > 0 => (c = country[n] /\ c \in Country)

\* Organizations of both countries are linked.
C6_Witness ==
    /\ \E n \in Org : country[n] = "France" /\ rel[n]["France"] = 1
    /\ \E n \in Org : country[n] = "Germany" /\ rel[n]["Germany"] = 1

\* C7: a step taken inside the loop of category pname leaves the
\* relationships of every Organization of another country as they were.
C7_CategoryIsolation ==
    [][pc = "while" =>
          \A n \in Org : country[n] # pname => rel'[n] = rel[n]]_vars

\* A batch of one category has created relationships while an Organization
\* of the other category, whose Country node exists, is still unlinked.
C7_Witness ==
    /\ pname # NoName /\ counters > 0 /\ batchLog # <<>>
    /\ \E n \in Org :
          country[n] # pname /\ country[n] \in Country /\ Unlinked(rel, n)

\* C8: the count query returns only counts > 0; a country with no unlinked
\* Organization when the query ran is not in its result and is never the
\* category of a batch of that run.
C8_SkipIfDone ==
    /\ \A property \in propertyList : property.ncount > 0
    /\ \A p \in Names :
          UnlinkedCount(relStart, p) = 0 =>
              /\ p \notin {property.pname : property \in propertyList}
              /\ pname # p

\* A later run is about to issue a batch while the other country, which has
\* Organizations, was fully linked when the query ran.
C8_Witness ==
    /\ run >= 2 /\ pc = "while"
    /\ \E p \in Names :
          /\ \E n \in Org : country[n] = p
          /\ UnlinkedCount(relStart, p) = 0

\* C9: the step in which a batch fails changes no relationship, on the
\* path that calls rollback and on the one that does not.
C9_NoRollback ==
    [][(outcome' \in Errors /\ outcome \notin Errors) => rel' = rel]_vars

\* A batch failed on the rollback path after a category was completed and
\* after a batch of the failing category had committed.
C9_Witness ==
    /\ pc = "exited" /\ outcome = "Other"
    /\ ntotal > 0
    /\ SumSeq(batchLog) > 0
    /\ EdgeCount(rel) > SumSeq(batchLog)

\* C10 as stated: after a CypherError in a batch the remaining categories
\* are still processed, so none is left when the job ends.
C10_Original ==
    (pc = "exited" /\ outcome = "CypherError" /\ pname # NoName) => cursor = {}

\* C10 amended: an exception in a batch ends the whole job: the script has
\* exited, and every category it had not reached keeps all the unlinked
\* Organizations the count query reported.
C10_JobAborts ==
    outcome \in Errors =>
        /\ pc = "exited"
        /\ \A property \in cursor :
              UnlinkedCount(rel, property.pname) = property.ncount

\* A batch failed with a CypherError while a category that has a Country
\* node was still to be processed.
C10_Witness ==
    /\ pc = "exited" /\ outcome = "CypherError"
    /\ pname # NoName
    /\ \E property \in cursor : property.pname \in Country

C12_EstimateTermination ==
    mode = "estimate" =>
        /\ (pc \in {"for", "while"} /\ pname # NoName) =>
               btotal = Len(batchLog) * batchSize
        /\ pc = "while" => btotal < ncount
        /\ CategoryDone =>
               /\ Len(batchLog) = CeilDiv(ncount, batchSize)
               /\ btotal >= ncount

\* A loop of three batches has ended having created fewer relationships
\* than the snapshot counted.
C12_Witness ==
    /\ mode = "estimate" /\ CategoryDone
    /\ Len(batchLog) = 3
    /\ SumSeq(batchLog) < ncount

\* C13: under actual-count termination no loop ends while an Organization of
\* its category, whose Country node exists, is unlinked; under
\* estimate-based termination, with another writer, a loop can end so
\* (C13_Witness is such a state).
C13_ActualCountStop ==
    (mode = "actualCount" /\ CategoryDone) => stranded = 0

\* Estimate-based: a batch created fewer than batchSize relationships while
\* the other writer was committing, and the loop ended with unlinked
\* Organizations whose Country node exists.
C13_Witness ==
    /\ mode = "estimate" /\ CategoryDone
    /\ writes > 0
    /\ stranded > 0
    /\ \E i \in 1..Len(batchLog) : batchLog[i] < batchSize

\* C14: in a run that no error cuts short, every loop that has started ends
\* (CategoryDone), also for a category without Country node, and the job
\* finishes.
C14_Termination ==
    /\ (pc = "while") ~> CategoryDone
    /\ <>(pc = "exited" /\ outcome = "done")

\* The job has finished after a loop of several batches over a category
\* without Country node, each of which created nothing.
C14_Witness ==
    /\ pc = "exited" /\ outcome = "done"
    /\ pname \notin Country
    /\ Len(batchLog) >= 2
    /\ SumSeq(batchLog) = 0

\* C15: a batch creates at most batchSize relationships: min(batchSize,
\* unlinked Organizations of the category) of them when the Country node of
\* the category exists, none when it does not; each links one more
\* Organization of the category.
C15_BatchBound ==
    [][(pc = "while" /\ Len(batchLog') = Len(batchLog) + 1) =>
          /\ counters' <= batchSize
          /\ counters' = IF pname \in Country
                         THEN Min(batchSize, UnlinkedCount(rel, pname))
                         ELSE 0
          /\ UnlinkedCount(rel', pname) =
                 UnlinkedCount(rel, pname) - counters']_vars

\* A batch has created batchSize = 2 relationships and left unlinked
\* Organizations of its category.
C15_Witness ==
    /\ pc = "while" /\ batchLog # <<>>
    /\ batchSize = 2 /\ counters = 2
    /\ UnlinkedCount(rel, pname) > 0

\* C18: when a category has finished, the total of refactored nodes is the
\* number of relationships the run has created so far.
C18_ProgressAccuracy ==
    CategoryDone => ntotal = EdgeCount(rel) - EdgeCount(relStart)

\* C19: with no other writer, no step of the job removes a relationship,
\* adds or removes a Country node or changes a country property, and the
\* number of unlinked Organizations of a country never grows.
C19_Monotone ==
    [][/\ \A n \in Org : \A c \in Names : rel'[n][c] >= rel[n][c]
       /\ Country' = Country
       /\ country' = country
       /\ \A p \in Names :
             UnlinkedCount(rel', p) <= UnlinkedCount(rel, p)]_vars

\* A batch was issued for a category without Country node, after the
\* batches of the other category had created relationships.
C19_Witness ==
    /\ pc \in {"for", "while"}
    /\ pname # NoName /\ pname \notin Country
    /\ batchLog # <<>>
    /\ EdgeCount(rel) > 0

\* The relationships a sequential run without retries ends with, whatever
\* the order of the categories: one per Organization whose Country node
\* exists, to that node (C2, C6).
SeqFinal ==
    [n \in Org |-> [c \in Names |->
        IF c = country[n] /\ c \in Country THEN 1 ELSE 0]]

\* C16: with the loops of the categories run side by side, under every
\* interleaving no Organization has more than one relationship, the job ends
\* with the relationships of the sequential run, and a batch of one category
\* leaves the Organizations of the other as they were.
C16_ParallelSafe ==
    /\ [](\A n \in Org : Degree(rel, n) <= 1)
    /\ []((pc = "exited" /\ outcome = "done") => rel = SeqFinal)
    /\ [][\A p \in Names :
             (pc = "parallel" /\ par'[p] # par[p]) =>
                 \A n \in Org : country[n] # p => rel'[n] = rel[n]]_vars

\* Both workers are inside their loops, each after a batch that created
\* relationships.
C16_Witness ==
    /\ pc = "parallel"
    /\ \A p \in Names :
          /\ par[p].pc = "while" /\ par[p].btotal > 0
          /\ CatEdges(rel, p) > 0

\* C17: with batches invoked again at any point of a loop, no Organization
\* ever has more than one relationship and the job ends with the
\* relationships of a run without retries.
C17_RetrySafe ==
    /\ \A n \in Org : Degree(rel, n) <= 1
    /\ (pc = "exited" /\ outcome = "done") => rel = SeqFinal

\* The job has ended after two repeated invocations, which created
\* relationships the loop did not count.
C17_Witness ==
    /\ pc = "exited" /\ outcome = "done"
    /\ retries >= 2
    /\ pname \in Country
    /\ SumSeq(batchLog) < ncount
    /\ EdgeCount(rel) >= 2

=============================================================================
